---- MODULE Spec2Model ----
(***************************************************************************)
(* A model of xous-sys, the user-space half of the Xous system call        *)
(* boundary: the error decoder, ServerAddress construction, the call       *)
(* encoder / result decoder and the operations layered on it, run against  *)
(* a kernel that stands behind the trap instruction.                       *)
(***************************************************************************)
EXTENDS Integers, Sequences, FiniteSets, TLC

(* ------------------------------------------------------------------ *)
(* Bounds of the model                                                 *)
(* ------------------------------------------------------------------ *)
\* raw error codes 0..MaxCode and signed inputs -MaxCode..MaxCode are decoded
MaxCode == 64
\* names of 0..MaxNameLen bytes are converted to a ServerAddress
MaxNameLen == 18
\* number of byte patterns tried for every name length
NumSeeds == 6
\* a process limit holds a value in 0..MaxLimit
MaxLimit == 1
\* the kernel's reply carries words 1 and 2 drawn from 7..MaxReplyWord
MaxReplyWord == 9
\* a buffer holds a value in 0..MaxData
MaxData == 1

(* ------------------------------------------------------------------ *)
(* definitions/mod.rs: enum Syscall                                    *)
(* ------------------------------------------------------------------ *)
Syscall_MapMemory == 2
Syscall_SendMessage == 16
Syscall_Connect == 17
Syscall_CreateThread == 18
Syscall_UnmapMemory == 19
Syscall_TrySendMessage == 24
Syscall_TryConnect == 25
Syscall_GetThreadId == 32
Syscall_JoinThread == 36
Syscall_AdjustProcessLimit == 38

(* definitions/mod.rs: enum SyscallResult *)
SyscallResult_Ok == 0
SyscallResult_Error == 1
SyscallResult_MemoryRange == 3
SyscallResult_ConnectionId == 7
SyscallResult_Message == 9
SyscallResult_ThreadId == 10
SyscallResult_Scalar1 == 14
SyscallResult_Scalar2 == 15
SyscallResult_MemoryReturned == 18
SyscallResult_Scalar5 == 20

(* definitions/mod.rs: enum InvokeType *)
InvokeType_LendMut == 1
InvokeType_Lend == 2
InvokeType_Move == 3
InvokeType_Scalar == 4
InvokeType_BlockingScalar == 5

(* definitions/mod.rs: enum Limits *)
Limits_HeapMaximum == 1
Limits_HeapSize == 2

(* ------------------------------------------------------------------ *)
(* definitions/mod.rs: enum Error, in declaration order.  The          *)
(* discriminant of the kind at position i is i - 1.                    *)
(* ------------------------------------------------------------------ *)
Error ==
  << "NoError", "BadAlignment", "BadAddress", "OutOfMemory", "MemoryInUse",
     "InterruptNotFound", "InterruptInUse", "InvalidString", "ServerExists",
     "ServerNotFound", "ProcessNotFound", "ProcessNotChild",
     "ProcessTerminated", "Timeout", "InternalError", "ServerQueueFull",
     "ThreadNotAvailable", "UnhandledSyscall", "InvalidSyscall",
     "ShareViolation", "InvalidThread", "InvalidPid", "UnknownError",
     "AccessDenied", "UseBeforeInit", "DoubleFree", "DebugInProgress",
     "InvalidLimit", "NotFound", "InvalidCoding", "HardwareError",
     "SerializationError", "InvalidArgument", "NetworkError", "StorageError",
     "Unavailable", "ParseError", "InvalidCore", "VerificationError",
     "SecurityError" >>

ErrorKinds == { Error[i] : i \in 1..Len(Error) }

\* `kind as usize`
Error_as_usize(kind) == (CHOOSE i \in 1..Len(Error) : Error[i] = kind) - 1

\* impl From<usize> for Error, with a decoder that forgot the comment's case
Error_from_usize_shifted(src) ==
  IF src \in 0..21 THEN Error[src + 1]
  ELSE IF src \in 22..38 THEN Error[src + 2]
  ELSE "UnknownError"

\* impl From<usize> for Error: the match, arm by arm; 22 has no arm
Error_from_usize(src) ==
  CASE src = 0 -> "NoError"
    [] src = 1 -> "BadAlignment"
    [] src = 2 -> "BadAddress"
    [] src = 3 -> "OutOfMemory"
    [] src = 4 -> "MemoryInUse"
    [] src = 5 -> "InterruptNotFound"
    [] src = 6 -> "InterruptInUse"
    [] src = 7 -> "InvalidString"
    [] src = 8 -> "ServerExists"
    [] src = 9 -> "ServerNotFound"
    [] src = 10 -> "ProcessNotFound"
    [] src = 11 -> "ProcessNotChild"
    [] src = 12 -> "ProcessTerminated"
    [] src = 13 -> "Timeout"
    [] src = 14 -> "InternalError"
    [] src = 15 -> "ServerQueueFull"
    [] src = 16 -> "ThreadNotAvailable"
    [] src = 17 -> "UnhandledSyscall"
    [] src = 18 -> "InvalidSyscall"
    [] src = 19 -> "ShareViolation"
    [] src = 20 -> "InvalidThread"
    [] src = 21 -> "InvalidPid"
    [] src = 23 -> "AccessDenied"
    [] src = 24 -> "UseBeforeInit"
    [] src = 25 -> "DoubleFree"
    [] src = 26 -> "DebugInProgress"
    [] src = 27 -> "InvalidLimit"
    [] src = 28 -> "NotFound"
    [] src = 29 -> "InvalidCoding"
    [] src = 30 -> "HardwareError"
    [] src = 31 -> "SerializationError"
    [] src = 32 -> "InvalidArgument"
    [] src = 33 -> "NetworkError"
    [] src = 34 -> "StorageError"
    [] src = 35 -> "Unavailable"
    [] src = 36 -> "ParseError"
    [] src = 37 -> "InvalidCore"
    [] src = 38 -> "VerificationError"
    [] src = 39 -> "SecurityError"
    [] OTHER -> "UnknownError"

\* impl From<i32> for Error: try_into::<usize> fails exactly on negatives
Error_from_i32(src) ==
  IF src < 0 THEN "UnknownError" ELSE Error_from_usize(src)

(* ------------------------------------------------------------------ *)
(* definitions/mod.rs: impl TryFrom<&str> for ServerAddress            *)
(* ------------------------------------------------------------------ *)
\* u32::from_be_bytes, the other byte order
u32_from_be_bytes(b) ==
  b[4] + 256 * b[3] + 65536 * b[2] + 16777216 * b[1]

\* u32::from_le_bytes of a 4-byte chunk
u32_from_le_bytes(b) ==
  b[1] + 256 * b[2] + 65536 * b[3] + 16777216 * b[4]

\* this_temp: [0u8; 16] overwritten by zip(b.iter())
this_temp(b) ==
  [i \in 1..16 |-> IF i <= Len(b) THEN b[i] ELSE 0]

\* chunks_exact(4): the k-th chunk (k = 1..4) of a 16-byte array
chunks_exact4(a, k) ==
  << a[4 * (k - 1) + 1], a[4 * (k - 1) + 2], a[4 * (k - 1) + 3], a[4 * (k - 1) + 4] >>

ServerAddress_try_from(value) ==
  IF Len(value) = 0 \/ Len(value) > 16
  THEN [ok |-> FALSE, err |-> "InvalidLength", words |-> << >>]
  ELSE [ok |-> TRUE, err |-> "",
        words |-> [k \in 1..4 |-> u32_from_le_bytes(chunks_exact4(this_temp(value), k))]]

(* ------------------------------------------------------------------ *)
(* State                                                               *)
(* ------------------------------------------------------------------ *)
VARIABLES
  pc,          \* "idle", "trap" (ecall issued), "blocked" (caller suspended
               \* by the kernel), "reply" (ecall returned), "done"
  op,          \* the library function being executed
  inp,         \* its word arguments
  call,        \* the 8 words handed to raw_syscall
  traps,       \* number of ecalls issued by the current function
  reply,       \* the 8 words raw_syscall returned
  result,      \* the function's return value
  bufOwner,    \* who is responsible for releasing the buffer argument:
               \* "none", "caller", "callee" (the Box lives in the library
               \* function's frame), "kernel", "freed"
  bufData,     \* contents of the buffer
  clientFrees, \* number of times this process dropped the buffer
  kernelFrees, \* number of times the kernel released the buffer
  mailboxFull, \* kernel: the target server's mailbox has no room
  servers,     \* kernel: addresses of the servers that exist
  limits,      \* kernel: the stored value of every process limit
  h,           \* what happened during the current call
  errTy, errSrc, errOut,   \* input and output of the error decoder
  name, addr               \* input and output of ServerAddress::try_from

callVars == << pc, op, inp, call, traps, reply, result >>
bufVars == << bufOwner, bufData, clientFrees, kernelFrees >>
kernelVars == << mailboxFull, servers, limits >>
errVars == << errTy, errSrc, errOut >>
addrVars == << name, addr >>
vars == << callVars, bufVars, kernelVars, h, errVars, addrVars >>

(* values of the arguments that the model feeds to the library *)
Connections == {1}
Opcodes == {3}
ArgPairs == { <<1, 2>>, <<2, 1>> }
\* the buffer argument: its address and its length in bytes
Buffer == << 4096, 64 >>
BufAddr == Buffer[1]
BufLen == Buffer[2]
Data == 0..MaxData
ThreadEntry == 2 * BufAddr
KnobSet == {Limits_HeapMaximum, Limits_HeapSize}
LimitValues == 0..MaxLimit
\* "test-server" and "s"
ServerNames == { <<116, 101, 115, 116, 45, 115, 101, 114, 118, 101, 114>>, <<115>> }
ServerAddresses == { ServerAddress_try_from(n).words : n \in ServerNames }

NoResult == [kind |-> "none", err |-> "", words |-> << >>]
ResultOk(w) == [kind |-> "Ok", err |-> "", words |-> w]
ResultErr(e) == [kind |-> "Err", err |-> e, words |-> << >>]
ResultNone == [kind |-> "None", err |-> "", words |-> << >>]

NoHistory ==
  [blocked |-> FALSE, room |-> FALSE, full |-> FALSE, absent |-> FALSE,
   data0 |-> 0, dataK |-> 0, limit0 |-> 0, served |-> "none"]

(* ------------------------------------------------------------------ *)
(* lib.rs: syscall, the single caller of raw_syscall                   *)
(* ------------------------------------------------------------------ *)
\* `syscall` decoding the Error from output word 2 instead of word 1
syscall_wrong_word(r) ==
  IF r[1] = 1 THEN ResultErr(Error_from_usize(r[3])) ELSE ResultOk(r)

\* the part of `syscall` after raw_syscall returned r
syscall(r) ==
  IF r[1] = 1 THEN ResultErr(Error_from_usize(r[2])) ELSE ResultOk(r)

\* a library function encodes `words`, and raw_syscall executes the ecall
\* once.  `owner` tells where the buffer argument lives while the kernel runs.
Issue(o, in, words, owner, data) ==
  /\ pc = "idle"
  /\ pc' = "trap"
  /\ op' = o
  /\ inp' = in
  /\ call' = words
  /\ traps' = 1
  /\ reply' = << >>
  /\ result' = NoResult
  /\ bufOwner' = owner
  /\ bufData' = data
  /\ clientFrees' = 0
  /\ kernelFrees' = 0
  /\ h' = [NoHistory EXCEPT !.data0 = data, !.dataK = data]
  /\ UNCHANGED << kernelVars, errVars, addrVars >>

(* ------------------------------------------------------------------ *)
(* lib.rs, unstable.rs: the words every function hands to `syscall`    *)
(* ------------------------------------------------------------------ *)
\* syscall: raw_syscall(a0 as usize, a1, a2, a3, a4, a5, a6, a7)
syscall_call(a0, a1, a2, a3, a4, a5, a6, a7) ==
  << a0, a1, a2, a3, a4, a5, a6, a7 >>

lend_mut_call(connection, opcode, data_ptr, data_len, arg1, arg2) ==
  << Syscall_SendMessage, connection, InvokeType_LendMut, opcode, data_ptr, data_len, arg1, arg2 >>

try_lend_mut_call(connection, opcode, data_ptr, data_len, arg1, arg2) ==
  << Syscall_TrySendMessage, connection, InvokeType_LendMut, opcode, data_ptr, data_len, arg1, arg2 >>

lend_call(connection, opcode, data_ptr, data_len, arg1, arg2) ==
  << Syscall_SendMessage, connection, InvokeType_Lend, opcode, data_ptr, data_len, arg1, arg2 >>

try_lend_call(connection, opcode, data_ptr, data_len, arg1, arg2) ==
  << Syscall_TrySendMessage, connection, InvokeType_Lend, opcode, data_ptr, data_len, arg1, arg2 >>

move_call(connection, opcode, addr_, len_, arg1, arg2) ==
  << Syscall_SendMessage, connection, InvokeType_Move, opcode, addr_, len_, arg1, arg2 >>

try_move_call(connection, opcode, addr_, len_, arg1, arg2) ==
  << Syscall_TrySendMessage, connection, InvokeType_Move, opcode, addr_, len_, arg1, arg2 >>

\* scalar, sent with the non-blocking syscall kind
scalar_call_try(connection, args) ==
  << Syscall_TrySendMessage, connection, InvokeType_Scalar, args[1], args[2], args[3], args[4], args[5] >>

scalar_call(connection, args) ==
  << Syscall_SendMessage, connection, InvokeType_Scalar, args[1], args[2], args[3], args[4], args[5] >>

try_scalar_call(connection, args) ==
  << Syscall_TrySendMessage, connection, InvokeType_Scalar, args[1], args[2], args[3], args[4], args[5] >>

blocking_scalar_call(connection, args) ==
  << Syscall_SendMessage, connection, InvokeType_BlockingScalar, args[1], args[2], args[3], args[4], args[5] >>

try_blocking_scalar_call(connection, args) ==
  << Syscall_TrySendMessage, connection, InvokeType_BlockingScalar, args[1], args[2], args[3], args[4], args[5] >>

connect_call(address) ==
  << Syscall_Connect, address[1], address[2], address[3], address[4], 0, 0, 0 >>

\* try_connect encodes Syscall::Connect, as connect does
try_connect_call(address) ==
  << Syscall_Connect, address[1], address[2], address[3], address[4], 0, 0, 0 >>

join_thread_call(thread_id_) ==
  << Syscall_JoinThread, thread_id_, 0, 0, 0, 0, 0, 0 >>

thread_id_call ==
  << Syscall_GetThreadId, 0, 0, 0, 0, 0, 0, 0 >>

adjust_limit_call(knob, current, new) ==
  << Syscall_AdjustProcessLimit, knob, current, new, 0, 0, 0, 0 >>

\* phys and virt are None (unwrap_or_default gives 0); T is u8, size_of is 1
map_memory_call(count, flags) ==
  << Syscall_MapMemory, 0, 0, count * 1, flags, 0, 0, 0 >>

unmap_memory_call(range_ptr, range_len) ==
  << Syscall_UnmapMemory, range_ptr, range_len * 1, 0, 0, 0, 0, 0 >>

create_thread_call(start, stack_ptr, stack_len, arg0, arg1, arg2, arg3) ==
  << Syscall_CreateThread, start, stack_ptr, stack_len, arg0, arg1, arg2, arg3 >>

(* ------------------------------------------------------------------ *)
(* Where the Box argument lives while the kernel runs                  *)
(* ------------------------------------------------------------------ *)
\* move without the core::mem::forget that precedes the syscall
move_box_during_call_kept == "callee"

\* r#move and try_move: core::mem::forget(data) precedes the syscall
move_box_during_call == "kernel"

\* unmap_memory: `range` is still held when the syscall is made
unmap_memory_box_during_call == "callee"

\* create_thread: `stack` is still held when the syscall is made
create_thread_box_during_call == "callee"

\* Does the function reach a core::mem::forget of its Box after raw_syscall
\* returned r?  unmap_memory and create_thread return early through `?` on an
\* Error reply, and forget the Box otherwise; no other function forgets
\* after the call.
unmap_memory_forgets(r) == syscall(r).kind = "Ok"

\* create_thread forgetting the stack before the call, as r#move does
create_thread_forgets_always(r) == TRUE

create_thread_forgets(r) == syscall(r).kind = "Ok"

ForgetsAfterCall(o, r) ==
  CASE o = "unmap_memory" -> unmap_memory_forgets(r)
    [] o = "create_thread" -> create_thread_forgets(r)
    [] OTHER -> FALSE

(* ------------------------------------------------------------------ *)
(* lib.rs, unstable.rs: what every function makes of the reply r       *)
(* ------------------------------------------------------------------ *)
\* the lend family returns (result.1, result.2)
lend_mut_ret(r) ==
  IF syscall(r).kind = "Err" THEN syscall(r) ELSE ResultOk(<< r[2], r[3] >>)

try_lend_mut_ret(r) ==
  IF syscall(r).kind = "Err" THEN syscall(r) ELSE ResultOk(<< r[2], r[3] >>)

\* lend returning the two words in the other order
lend_ret_swapped(r) ==
  IF syscall(r).kind = "Err" THEN syscall(r) ELSE ResultOk(<< r[3], r[2] >>)

lend_ret(r) ==
  IF syscall(r).kind = "Err" THEN syscall(r) ELSE ResultOk(<< r[2], r[3] >>)

try_lend_ret(r) ==
  IF syscall(r).kind = "Err" THEN syscall(r) ELSE ResultOk(<< r[2], r[3] >>)

move_ret(r) ==
  IF syscall(r).kind = "Err" THEN syscall(r) ELSE ResultOk(<< >>)

try_move_ret(r) ==
  IF syscall(r).kind = "Err" THEN syscall(r) ELSE ResultOk(<< >>)

scalar_ret(r) ==
  IF syscall(r).kind = "Err" THEN syscall(r) ELSE ResultOk(<< >>)

try_scalar_ret(r) ==
  IF syscall(r).kind = "Err" THEN syscall(r) ELSE ResultOk(<< >>)

blocking_scalar_ret(r) ==
  IF syscall(r).kind = "Err" THEN syscall(r)
  ELSE ResultOk(<< r[2], r[3], r[4], r[5], r[6] >>)

try_blocking_scalar_ret(r) ==
  IF syscall(r).kind = "Err" THEN syscall(r)
  ELSE ResultOk(<< r[2], r[3], r[4], r[5], r[6] >>)

\* Connection(result.1 as u32): words of the model are below 2^31
connect_ret(r) ==
  IF syscall(r).kind = "Err" THEN syscall(r) ELSE ResultOk(<< r[2] >>)

\* try_connect propagating ServerNotFound, as connect does
try_connect_ret_propagates(r) ==
  IF syscall(r).kind = "Err" THEN syscall(r) ELSE ResultOk(<< r[2] >>)

try_connect_ret(r) ==
  IF syscall(r).kind = "Ok" THEN ResultOk(<< r[2] >>)
  ELSE IF syscall(r).err = "ServerNotFound" THEN ResultNone
  ELSE syscall(r)

join_thread_ret(r) ==
  IF syscall(r).kind = "Err" THEN syscall(r) ELSE ResultOk(<< r[2] >>)

thread_id_ret(r) ==
  IF syscall(r).kind = "Err" THEN syscall(r) ELSE ResultOk(<< r[2] >>)

\* adjust_limit: Scalar2 gives result.2, Scalar5 gives result.1
adjust_limit_ret(knob, r) ==
  IF syscall(r).kind = "Err" THEN syscall(r)
  ELSE IF r[1] = SyscallResult_Scalar2 /\ r[2] = knob THEN ResultOk(<< r[3] >>)
  ELSE IF r[1] = SyscallResult_Scalar5 /\ r[2] = knob THEN ResultOk(<< r[2] >>)
  ELSE ResultErr("InternalError")

\* map_memory: Box of result.2 / size_of::<u8>() elements at result.1
map_memory_ret(r) ==
  IF syscall(r).kind = "Err" THEN syscall(r)
  ELSE IF r[1] # SyscallResult_MemoryRange THEN ResultErr("InternalError")
  ELSE ResultOk(<< r[2], r[3] \div 1 >>)

unmap_memory_ret(r) ==
  IF syscall(r).kind = "Err" THEN syscall(r) ELSE ResultOk(<< >>)

create_thread_ret(r) ==
  IF syscall(r).kind = "Err" THEN syscall(r)
  ELSE IF r[1] # SyscallResult_ThreadId THEN ResultErr("InternalError")
  ELSE ResultOk(<< r[2] >>)

ResultOf(o, in, r) ==
  CASE o = "lend_mut" -> lend_mut_ret(r)
    [] o = "try_lend_mut" -> try_lend_mut_ret(r)
    [] o = "lend" -> lend_ret(r)
    [] o = "try_lend" -> try_lend_ret(r)
    [] o = "move" -> move_ret(r)
    [] o = "try_move" -> try_move_ret(r)
    [] o = "scalar" -> scalar_ret(r)
    [] o = "try_scalar" -> try_scalar_ret(r)
    [] o = "blocking_scalar" -> blocking_scalar_ret(r)
    [] o = "try_blocking_scalar" -> try_blocking_scalar_ret(r)
    [] o = "connect" -> connect_ret(r)
    [] o = "try_connect" -> try_connect_ret(r)
    [] o = "join_thread" -> join_thread_ret(r)
    [] o = "thread_id" -> thread_id_ret(r)
    [] o = "adjust_limit" -> adjust_limit_ret(in[1], r)
    [] o = "map_memory" -> map_memory_ret(r)
    [] o = "unmap_memory" -> unmap_memory_ret(r)
    [] o = "create_thread" -> create_thread_ret(r)
    [] o = "syscall" -> syscall(r)

(* ------------------------------------------------------------------ *)
(* The library functions up to the ecall                               *)
(* ------------------------------------------------------------------ *)
ScalarArgs(ap) == << ap[1], ap[2], 11, 12, 13 >>

lend_mut ==
  \E c \in Connections, o \in Opcodes, ap \in ArgPairs, d \in Data :
    Issue("lend_mut", << c, o, ap[1], ap[2] >>,
          lend_mut_call(c, o, BufAddr, BufLen, ap[1], ap[2]), "caller", d)

try_lend_mut ==
  \E c \in Connections, o \in Opcodes, ap \in ArgPairs, d \in Data :
    Issue("try_lend_mut", << c, o, ap[1], ap[2] >>,
          try_lend_mut_call(c, o, BufAddr, BufLen, ap[1], ap[2]), "caller", d)

lend ==
  \E c \in Connections, o \in Opcodes, ap \in ArgPairs, d \in Data :
    Issue("lend", << c, o, ap[1], ap[2] >>,
          lend_call(c, o, BufAddr, BufLen, ap[1], ap[2]), "caller", d)

try_lend ==
  \E c \in Connections, o \in Opcodes, ap \in ArgPairs, d \in Data :
    Issue("try_lend", << c, o, ap[1], ap[2] >>,
          try_lend_call(c, o, BufAddr, BufLen, ap[1], ap[2]), "caller", d)

move ==
  \E c \in Connections, o \in Opcodes, ap \in ArgPairs, d \in Data :
    Issue("move", << c, o, ap[1], ap[2] >>,
          move_call(c, o, BufAddr, BufLen, ap[1], ap[2]), move_box_during_call, d)

try_move ==
  \E c \in Connections, o \in Opcodes, ap \in ArgPairs, d \in Data :
    Issue("try_move", << c, o, ap[1], ap[2] >>,
          try_move_call(c, o, BufAddr, BufLen, ap[1], ap[2]), move_box_during_call, d)

scalar ==
  \E c \in Connections, ap \in ArgPairs :
    Issue("scalar", << c >> \o ScalarArgs(ap), scalar_call(c, ScalarArgs(ap)), "none", 0)

try_scalar ==
  \E c \in Connections, ap \in ArgPairs :
    Issue("try_scalar", << c >> \o ScalarArgs(ap), try_scalar_call(c, ScalarArgs(ap)), "none", 0)

blocking_scalar ==
  \E c \in Connections, ap \in ArgPairs :
    Issue("blocking_scalar", << c >> \o ScalarArgs(ap),
          blocking_scalar_call(c, ScalarArgs(ap)), "none", 0)

try_blocking_scalar ==
  \E c \in Connections, ap \in ArgPairs :
    Issue("try_blocking_scalar", << c >> \o ScalarArgs(ap),
          try_blocking_scalar_call(c, ScalarArgs(ap)), "none", 0)

connect ==
  \E a \in ServerAddresses :
    Issue("connect", a, connect_call(a), "none", 0)

try_connect ==
  \E a \in ServerAddresses :
    Issue("try_connect", a, try_connect_call(a), "none", 0)

join_thread ==
  \E t \in {2} :
    Issue("join_thread", << t >>, join_thread_call(t), "none", 0)

thread_id ==
  Issue("thread_id", << >>, thread_id_call, "none", 0)

adjust_limit ==
  \E knob \in KnobSet, current \in LimitValues, new \in LimitValues :
    Issue("adjust_limit", << knob, current, new >>,
          adjust_limit_call(knob, current, new), "none", 0)

map_memory ==
  \E count \in {BufLen} :
    Issue("map_memory", << count, 0 >>, map_memory_call(count, 0), "none", 0)

unmap_memory ==
  \E d \in Data :
    Issue("unmap_memory", << BufAddr, BufLen >>,
          unmap_memory_call(BufAddr, BufLen), unmap_memory_box_during_call, d)

create_thread ==
  \E ap \in ArgPairs, d \in Data :
    Issue("create_thread", << ThreadEntry, ap[1], ap[2], 0, 0 >>,
          create_thread_call(ThreadEntry, BufAddr, BufLen, ap[1], ap[2], 0, 0),
          create_thread_box_during_call, d)

\* `syscall` called directly, with a syscall kind and 7 words
syscall_direct ==
  \E a0 \in {Syscall_GetThreadId, Syscall_JoinThread}, ap \in ArgPairs :
    Issue("syscall", << a0, ap[1], ap[2], 3, 4, 5, 6, 7 >>,
          syscall_call(a0, ap[1], ap[2], 3, 4, 5, 6, 7), "none", 0)

(* ------------------------------------------------------------------ *)
(* The function after the ecall returned: the result is decoded, and a  *)
(* Box that the function still holds at its end is dropped unless the   *)
(* function forgot it.                                                  *)
(* ------------------------------------------------------------------ *)
Return ==
  /\ pc = "reply"
  /\ pc' = "done"
  /\ result' = ResultOf(op, inp, reply)
  /\ IF bufOwner = "callee"
     THEN IF ForgetsAfterCall(op, reply)
          THEN bufOwner' = "kernel" /\ clientFrees' = clientFrees
          ELSE bufOwner' = "freed" /\ clientFrees' = clientFrees + 1
     ELSE UNCHANGED << bufOwner, clientFrees >>
  /\ UNCHANGED << op, inp, call, traps, reply, bufData, kernelFrees,
                  kernelVars, h, errVars, addrVars >>

\* the caller takes the result; the library is ready for the next call
Finish ==
  /\ pc = "done"
  /\ pc' = "idle"
  /\ op' = "none"
  /\ inp' = << >>
  /\ call' = << >>
  /\ traps' = 0
  /\ reply' = << >>
  /\ result' = NoResult
  /\ bufOwner' = "none"
  /\ bufData' = 0
  /\ clientFrees' = 0
  /\ kernelFrees' = 0
  /\ h' = NoHistory
  /\ UNCHANGED << kernelVars, errVars, addrVars >>

(* ------------------------------------------------------------------ *)
(* The kernel behind the ecall.  A send finds the server's mailbox     *)
(* with or without room; Connect suspends the caller until the server  *)
(* exists and TryConnect answers at once; AdjustProcessLimit is a      *)
(* compare-and-swap on the stored limit.  Beyond that the kernel may   *)
(* answer any call with any result shape or with an Error.             *)
(* ------------------------------------------------------------------ *)
ReplyTags ==
  { SyscallResult_Ok, SyscallResult_Error, SyscallResult_MemoryRange,
    SyscallResult_ConnectionId, SyscallResult_Message, SyscallResult_ThreadId,
    SyscallResult_Scalar1, SyscallResult_Scalar2, SyscallResult_MemoryReturned,
    SyscallResult_Scalar5 }

ReplyWords == 7..MaxReplyWord

AnyReply ==
  { << t, w1, w2, 33, 34, 35, 36, 37 >> : t \in ReplyTags, w1 \in ReplyWords, w2 \in ReplyWords }

ErrorReply(kind) ==
  << SyscallResult_Error, Error_as_usize(kind), 0, 0, 0, 0, 0, 0 >>

\* the ecall returns r to the caller
Deliver(r, by, hist) ==
  /\ pc' = "reply"
  /\ reply' = r
  /\ h' = [hist EXCEPT !.served = by, !.dataK = bufData']
  /\ UNCHANGED << op, inp, call, traps, result, bufOwner, clientFrees, errVars, addrVars >>

\* the caller is suspended inside the ecall
Suspend ==
  /\ pc' = "blocked"
  /\ UNCHANGED << op, inp, call, traps, reply, result, bufVars, errVars, addrVars >>

\* the message reaches the server (or the kernel refuses it, though not for
\* want of room): a mutable loan may be written by the server, a moved buffer
\* belongs to the kernel, which may release it
SendOutcome ==
  \E r \in AnyReply :
    /\ ~(r[1] = SyscallResult_Error /\ r[2] = Error_as_usize("ServerQueueFull"))
    /\ bufData' \in (IF call[3] = InvokeType_LendMut THEN Data ELSE {bufData})
    /\ kernelFrees' \in (IF call[3] = InvokeType_Move THEN {0, 1} ELSE {0})
    /\ Deliver(r, "SendMessage", h)

KernelSendMessage ==
  /\ pc = "trap"
  /\ call[1] \in {Syscall_SendMessage, Syscall_TrySendMessage}
  /\ UNCHANGED kernelVars
  /\ IF mailboxFull
     THEN IF call[1] = Syscall_TrySendMessage
          THEN /\ UNCHANGED << bufData, kernelFrees >>
               /\ Deliver(ErrorReply("ServerQueueFull"), "SendMessage",
                          [h EXCEPT !.full = TRUE])
          ELSE /\ h' = [h EXCEPT !.blocked = TRUE, !.full = TRUE]
               /\ Suspend
     ELSE SendOutcome

KernelResumeSend ==
  /\ pc = "blocked"
  /\ call[1] = Syscall_SendMessage
  /\ ~mailboxFull
  /\ UNCHANGED kernelVars
  /\ SendOutcome

\* the "room available" event
RoomAvailable ==
  /\ pc \in {"idle", "blocked"}
  /\ mailboxFull
  /\ mailboxFull' = FALSE
  /\ h' = [h EXCEPT !.room = (pc = "blocked" /\ call[1] = Syscall_SendMessage)]
  /\ UNCHANGED << callVars, bufVars, servers, limits, errVars, addrVars >>

MailboxFill ==
  /\ pc = "idle"
  /\ ~mailboxFull
  /\ mailboxFull' = TRUE
  /\ UNCHANGED << callVars, bufVars, servers, limits, h, errVars, addrVars >>

CallAddress == << call[2], call[3], call[4], call[5] >>

KernelConnect ==
  /\ pc = "trap"
  /\ call[1] \in {Syscall_Connect, Syscall_TryConnect}
  /\ UNCHANGED << kernelVars, bufData, kernelFrees >>
  /\ IF CallAddress \notin servers
     THEN IF call[1] = Syscall_TryConnect
          THEN Deliver(ErrorReply("ServerNotFound"), "Connect", [h EXCEPT !.absent = TRUE])
          ELSE /\ h' = [h EXCEPT !.blocked = TRUE, !.absent = TRUE]
               /\ Suspend
     ELSE \E r \in AnyReply : Deliver(r, "Connect", h)

KernelResumeConnect ==
  /\ pc = "blocked"
  /\ call[1] = Syscall_Connect
  /\ CallAddress \in servers
  /\ UNCHANGED << kernelVars, bufData, kernelFrees >>
  /\ \E r \in AnyReply : Deliver(r, "Connect", h)

ServerStart ==
  /\ pc \in {"idle", "blocked"}
  /\ \E a \in ServerAddresses \ servers : servers' = servers \cup {a}
  /\ UNCHANGED << callVars, bufVars, mailboxFull, limits, h, errVars, addrVars >>

ServerExit ==
  /\ pc = "idle"
  /\ \E a \in servers : servers' = servers \ {a}
  /\ UNCHANGED << callVars, bufVars, mailboxFull, limits, h, errVars, addrVars >>

\* compare-and-swap of the stored limit; the reply carries the limit's id in
\* word 1 and its value in word 2, under whichever result tag the kernel uses
KernelAdjustProcessLimit ==
  /\ pc = "trap"
  /\ call[1] = Syscall_AdjustProcessLimit
  /\ UNCHANGED << mailboxFull, servers, bufData, kernelFrees >>
  /\ IF call[2] \notin DOMAIN limits
     THEN /\ UNCHANGED limits
          /\ Deliver(ErrorReply("InvalidLimit"), "AdjustProcessLimit", h)
     ELSE /\ limits' = IF limits[call[2]] = call[3]
                        THEN [limits EXCEPT ![call[2]] = call[4]]
                        ELSE limits
          /\ \E t \in ReplyTags \ {SyscallResult_Error} :
               /\ pc' = "reply"
               /\ reply' = << t, call[2], limits'[call[2]], 0, 0, 0, 0, 0 >>
               /\ h' = [h EXCEPT !.served = "AdjustProcessLimit", !.limit0 = limits[call[2]]]
               /\ UNCHANGED << op, inp, call, traps, result, bufOwner, clientFrees,
                               errVars, addrVars >>

\* every other call: any reply; a successful UnmapMemory releases the range
KernelOther ==
  /\ pc = "trap"
  /\ call[1] \in {Syscall_MapMemory, Syscall_CreateThread, Syscall_UnmapMemory,
                  Syscall_GetThreadId, Syscall_JoinThread}
  /\ UNCHANGED << kernelVars, bufData >>
  /\ \E r \in AnyReply :
       /\ kernelFrees' = IF call[1] = Syscall_UnmapMemory /\ r[1] # SyscallResult_Error
                         THEN 1 ELSE 0
       /\ Deliver(r, "other", h)

(* ------------------------------------------------------------------ *)
(* The library called by one thread, against the kernel                *)
(* ------------------------------------------------------------------ *)
NoAddr == [ok |-> FALSE, err |-> "none", words |-> << >>]

InitCall ==
  /\ pc = "idle"
  /\ op = "none"
  /\ inp = << >>
  /\ call = << >>
  /\ traps = 0
  /\ reply = << >>
  /\ result = NoResult
  /\ bufOwner = "none"
  /\ bufData = 0
  /\ clientFrees = 0
  /\ kernelFrees = 0
  /\ mailboxFull = FALSE
  /\ servers = {}
  /\ limits = [k \in KnobSet |-> 0]
  /\ h = NoHistory

Init ==
  /\ InitCall
  /\ errTy = "none" /\ errSrc = 0 /\ errOut = "none"
  /\ name = << >> /\ addr = NoAddr

Next ==
  \/ lend_mut \/ try_lend_mut \/ lend \/ try_lend
  \/ move \/ try_move
  \/ scalar \/ try_scalar \/ blocking_scalar \/ try_blocking_scalar
  \/ connect \/ try_connect
  \/ join_thread \/ thread_id \/ adjust_limit
  \/ map_memory \/ unmap_memory \/ create_thread
  \/ syscall_direct
  \/ KernelSendMessage \/ KernelResumeSend \/ RoomAvailable \/ MailboxFill
  \/ KernelConnect \/ KernelResumeConnect \/ ServerStart \/ ServerExit
  \/ KernelAdjustProcessLimit \/ KernelOther
  \/ Return \/ Finish

Spec == Init /\ [][Next]_vars

\* the kernel resumes a suspended sender once the mailbox has room, and a
\* function whose ecall returned runs to its end
SpecLive == Spec /\ WF_vars(KernelResumeSend) /\ WF_vars(Return)

(* ------------------------------------------------------------------ *)
(* The error decoder applied to raw codes                              *)
(* ------------------------------------------------------------------ *)
InitErr ==
  /\ InitCall
  /\ name = << >> /\ addr = NoAddr
  /\ errOut = "none"
  /\ \/ errTy = "usize" /\ errSrc \in 0..MaxCode
     \/ errTy = "i32" /\ errSrc \in (0 - MaxCode)..MaxCode

DecodeUsize ==
  /\ errTy = "usize" /\ errOut = "none"
  /\ errOut' = Error_from_usize(errSrc)
  /\ UNCHANGED << callVars, bufVars, kernelVars, h, errTy, errSrc, addrVars >>

DecodeI32 ==
  /\ errTy = "i32" /\ errOut = "none"
  /\ errOut' = Error_from_i32(errSrc)
  /\ UNCHANGED << callVars, bufVars, kernelVars, h, errTy, errSrc, addrVars >>

NextErr == DecodeUsize \/ DecodeI32

SpecErr == InitErr /\ [][NextErr]_vars

(* ------------------------------------------------------------------ *)
(* ServerAddress::try_from applied to names                            *)
(* ------------------------------------------------------------------ *)
\* the name of n bytes of pattern s: bytes differ from position to position
NameOf(n, s) == [i \in 1..n |-> (s * i * 7 + s * s) % 128]

Names == { NameOf(n, s) : n \in 0..MaxNameLen, s \in 1..NumSeeds }

InitAddr ==
  /\ InitCall
  /\ errTy = "none" /\ errSrc = 0 /\ errOut = "none"
  /\ name \in Names
  /\ addr = NoAddr

TryFromStr ==
  /\ addr = NoAddr
  /\ addr' = ServerAddress_try_from(name)
  /\ UNCHANGED << callVars, bufVars, kernelVars, h, errVars, name >>

NextAddr == TryFromStr

SpecAddr == InitAddr /\ [][NextAddr]_vars

(* ------------------------------------------------------------------ *)
(* Properties                                                          *)
(* ------------------------------------------------------------------ *)
MoveOps == {"move", "try_move"}
LendOps == {"lend", "try_lend", "lend_mut", "try_lend_mut"}
TrySendOps == {"try_lend_mut", "try_lend", "try_move", "try_scalar", "try_blocking_scalar"}
BlockingSendOps == {"lend_mut", "lend", "move", "scalar", "blocking_scalar"}
Replied == pc \in {"reply", "done"}

\* C1: from the moment move or try_move issues its call the buffer belongs to
\* the kernel: whatever the kernel answers (a success tag or any Error), this
\* process never drops the buffer and never changes it after the kernel
\* answered, so the buffer is released at most once overall.
C1_MoveRelinquishesBuffer ==
  op \in MoveOps =>
    /\ bufOwner = "kernel"
    /\ clientFrees = 0
    /\ clientFrees + kernelFrees <= 1
    /\ Replied => bufData = h.dataK

\* the kernel failed a move, and the function has returned the Error
C1_Witness ==
  /\ op = "move" /\ pc = "done"
  /\ reply[1] = SyscallResult_Error
  /\ result.kind = "Err"
  /\ clientFrees = 0

\* C2: from the moment unmap_memory issues UnmapMemory the range belongs to
\* the kernel: whatever the kernel answers, an Error included, this process
\* never drops the range, which is released at most once, by the kernel only.
C2_UnmapRelinquishesRange ==
  op = "unmap_memory" =>
    /\ clientFrees = 0
    /\ bufOwner # "freed"
    /\ clientFrees + kernelFrees <= 1

C4_LoanReturnsBuffer ==
  op \in LendOps =>
    /\ bufOwner = "caller"
    /\ clientFrees = 0
    /\ kernelFrees = 0
    /\ Replied => bufData = h.dataK
    /\ Replied /\ op \in {"lend", "try_lend"} => bufData = h.data0
    /\ pc = "done" /\ reply[1] # SyscallResult_Error =>
         result = ResultOk(<< reply[2], reply[3] >>)
    /\ pc = "done" /\ reply[1] = SyscallResult_Error => result.kind = "Err"

\* lend with opcode 3 and arguments (1, 2); the kernel echoes (7, 8)
C4_Witness ==
  /\ op = "lend" /\ pc = "done"
  /\ inp = << 1, 3, 1, 2 >>
  /\ reply[1] = SyscallResult_MemoryReturned
  /\ reply[2] = 7 /\ reply[3] = 8
  /\ result = ResultOk(<< 7, 8 >>)
  /\ bufOwner = "caller"

\* C5: the kernel suspends a Connect until the named server exists and
\* answers a TryConnect at once with ServerNotFound.  try_connect on a name
\* that no server has is never suspended and returns Ok(None); connect on such
\* a name stays suspended while the server is missing, so that it never
\* returns a Connection for a missing server.
C5_TryConnectDoesNotSuspend ==
  /\ op = "try_connect" => pc # "blocked" /\ ~h.blocked
  /\ op = "try_connect" /\ pc = "done" /\ h.absent => result = ResultNone
  /\ op = "connect" /\ h.absent /\ CallAddress \notin servers => pc = "blocked"
  /\ op = "connect" /\ pc = "done" /\ result.kind = "Ok" => CallAddress \in servers

\* what holds in every state of a send that found the mailbox full
C6_Safety ==
  /\ op \in TrySendOps => pc # "blocked" /\ ~h.blocked
  /\ op \in TrySendOps /\ h.full /\ pc = "done" => result = ResultErr("ServerQueueFull")
  /\ op \in BlockingSendOps /\ pc = "blocked" => h.full /\ (mailboxFull \/ h.room)
  /\ op \in BlockingSendOps /\ h.full /\ Replied => h.blocked /\ h.room
  /\ op \in BlockingSendOps /\ h.full /\ pc = "done" => result # ResultErr("ServerQueueFull")

\* C6: the target server's mailbox is full when the message arrives.  Every
\* try_ variant is answered at once, is never suspended, and returns
\* ServerQueueFull; every blocking variant is suspended, gets no answer before
\* a "room available" event, does not return ServerQueueFull, and once there
\* is room it returns.
C6_FullMailbox ==
  /\ []C6_Safety
  /\ (op \in BlockingSendOps /\ pc = "blocked" /\ ~mailboxFull)
       ~> (op \in BlockingSendOps /\ pc = "done")

\* scalar found the mailbox full, was suspended, and has returned after the
\* "room available" event
C6_Witness ==
  /\ op = "scalar" /\ pc = "done"
  /\ h.full /\ h.blocked /\ h.room
  /\ result = ResultOk(<< >>)

\* the kernel answered adjust_limit in one of the two scalar shapes
ScalarShape == reply[1] \in {SyscallResult_Scalar2, SyscallResult_Scalar5}

\* C7: the kernel stores one value per limit.  When `current` equals the
\* stored value the kernel stores `new` and adjust_limit returns Ok(new); when
\* it differs the stored value stays and adjust_limit returns Ok(stored
\* value); the result is Ok in both cases.
C7_AdjustLimitCompareAndSwap ==
  op = "adjust_limit" /\ pc = "done" /\ ScalarShape =>
    /\ result.kind = "Ok"
    /\ inp[2] = h.limit0 => limits[inp[1]] = inp[3] /\ result = ResultOk(<< inp[3] >>)
    /\ inp[2] # h.limit0 => limits[inp[1]] = h.limit0 /\ result = ResultOk(<< h.limit0 >>)

\* C8: for the same limit and the same stored value, adjust_limit returns the
\* same word, the limit's value, under a Scalar2 reply and under a Scalar5
\* reply; under any other success tag it returns InternalError.
C8_AdjustLimitShapes ==
  op = "adjust_limit" /\ pc = "done" /\ reply[1] # SyscallResult_Error =>
    IF ScalarShape THEN result = ResultOk(<< limits[inp[1]] >>)
    ELSE result = ResultErr("InternalError")

\* C9: the decoder gives a kind for every input: for a code c in 0..39 the
\* kind whose number is c (UnknownError for 22), for any other unsigned code
\* UnknownError, and for a negative signed input UnknownError.
C9_ErrorDecoderTotal ==
  errOut # "none" =>
    /\ errOut \in ErrorKinds
    /\ errTy = "usize" /\ errSrc \in 0..39 =>
         errOut = Error[errSrc + 1] /\ Error_as_usize(errOut) = errSrc
    /\ errTy = "usize" /\ errSrc \notin 0..39 => errOut = "UnknownError"
    /\ errTy = "i32" /\ errSrc < 0 => errOut = "UnknownError"

\* code 22 has been decoded, to UnknownError, whose number is 22
C9_Witness ==
  /\ errTy = "usize" /\ errSrc = 22
  /\ errOut = "UnknownError"
  /\ Error_as_usize(errOut) = 22

\* u32::to_le_bytes: byte k (0..3) of a word
to_le_byte(w, k) ==
  CASE k = 0 -> w % 256
    [] k = 1 -> (w \div 256) % 256
    [] k = 2 -> (w \div 65536) % 256
    [] k = 3 -> (w \div 16777216) % 256

\* the 16 bytes of 4 words
WordsBytes(w) == [i \in 1..16 |-> to_le_byte(w[((i - 1) \div 4) + 1], (i - 1) % 4)]

\* C10: a name of 1..16 bytes gives a ServerAddress whose 4 words, read as
\* little-endian bytes in order, are the name followed by zero bytes up to 16;
\* a name of 0 or of more than 16 bytes gives InvalidLength, and no ecall is
\* made.
C10_ServerAddressRoundTrip ==
  addr # NoAddr =>
    /\ traps = 0 /\ pc = "idle"
    /\ IF Len(name) \in 1..16
       THEN /\ addr.ok
            /\ Len(addr.words) = 4
            /\ WordsBytes(addr.words) = name \o [i \in 1..(16 - Len(name)) |-> 0]
       ELSE ~addr.ok /\ addr.err = "InvalidLength"

\* an 11-byte name has been converted
C10_Witness ==
  /\ Len(name) = 11
  /\ addr.ok
  /\ to_le_byte(addr.words[3], 2) = name[11]
  /\ addr.words[4] = 0

\* the Error kind of a raw code, read from the table of discriminants
KindOfCode(c) == IF c \in 0..(Len(Error) - 1) THEN Error[c + 1] ELSE "UnknownError"

\* C11: a call of `syscall` executes the ecall once, whatever the reply, with
\* word 0 the number of the syscall kind and words 1..7 the arguments in
\* order; when output word 0 is the error tag the result is the Error decoded
\* from output word 1, and otherwise it is Ok of the 8 output words as they
\* came.
C11_SyscallOnce ==
  /\ pc # "idle" => traps = 1
  /\ op = "syscall" =>
       /\ call = inp
       /\ Len(call) = 8
       /\ pc = "done" /\ reply[1] = SyscallResult_Error =>
            result = ResultErr(KindOfCode(reply[2]))
       /\ pc = "done" /\ reply[1] # SyscallResult_Error => result = ResultOk(reply)

\* GetThreadId issued through `syscall` with arguments (1, 2, 3, ..., 7) was
\* answered with an Error whose code differs from output word 2
C11_Witness ==
  /\ op = "syscall" /\ pc = "done"
  /\ call = << Syscall_GetThreadId, 1, 2, 3, 4, 5, 6, 7 >>
  /\ traps = 1
  /\ reply[1] = SyscallResult_Error /\ reply[2] = 9 /\ reply[3] = 7
  /\ result = ResultErr("ServerNotFound")

\* C12: try_connect turns a successful reply into Ok(Some(Connection of
\* output word 1)), the Error ServerNotFound into Ok(None), and returns every
\* other Error as it is; connect returns every Error as it is, ServerNotFound
\* included.
C12_TryConnectOutcome ==
  /\ op = "try_connect" /\ pc = "done" =>
       result = (IF reply[1] # SyscallResult_Error THEN ResultOk(<< reply[2] >>)
                 ELSE IF KindOfCode(reply[2]) = "ServerNotFound" THEN ResultNone
                 ELSE ResultErr(KindOfCode(reply[2])))
  /\ op = "connect" /\ pc = "done" /\ reply[1] = SyscallResult_Error =>
       result = ResultErr(KindOfCode(reply[2]))

\* the kernel answered try_connect with ServerNotFound, and the caller got
\* Ok(None)
C12_Witness ==
  /\ op = "try_connect" /\ pc = "done"
  /\ reply[1] = SyscallResult_Error
  /\ reply[2] = Error_as_usize("ServerNotFound")
  /\ result = ResultNone

\* the blocking functions and their try_ counterparts
BlockingOps == BlockingSendOps \cup {"blocking_scalar", "connect"}
TryOps == TrySendOps \cup {"try_connect"}

\* the words that the counterpart of function o encodes from the inputs in
CounterpartCall(o, in) ==
  CASE o = "lend_mut" -> try_lend_mut_call(in[1], in[2], BufAddr, BufLen, in[3], in[4])
    [] o = "try_lend_mut" -> lend_mut_call(in[1], in[2], BufAddr, BufLen, in[3], in[4])
    [] o = "lend" -> try_lend_call(in[1], in[2], BufAddr, BufLen, in[3], in[4])
    [] o = "try_lend" -> lend_call(in[1], in[2], BufAddr, BufLen, in[3], in[4])
    [] o = "move" -> try_move_call(in[1], in[2], BufAddr, BufLen, in[3], in[4])
    [] o = "try_move" -> move_call(in[1], in[2], BufAddr, BufLen, in[3], in[4])
    [] o = "scalar" -> try_scalar_call(in[1], Tail(in))
    [] o = "try_scalar" -> scalar_call(in[1], Tail(in))
    [] o = "blocking_scalar" -> try_blocking_scalar_call(in[1], Tail(in))
    [] o = "try_blocking_scalar" -> blocking_scalar_call(in[1], Tail(in))
    [] o = "connect" -> try_connect_call(in)
    [] o = "try_connect" -> connect_call(in)

\* C13: a blocking function and its try_ counterpart encode, from the same
\* inputs, calls that agree in words 1..7 and differ in word 0, which is the
\* blocking kind (SendMessage = 16, Connect = 17) for the blocking function
\* and the non-blocking kind (TrySendMessage = 24, TryConnect = 25) for the
\* try_ function.
C13_TryDiffersInKindOnly ==
  op \in BlockingOps \cup TryOps =>
    /\ Tail(call) = Tail(CounterpartCall(op, inp))
    /\ call[1] # CounterpartCall(op, inp)[1]
    /\ op \in BlockingOps \ {"connect"} => call[1] = 16
    /\ op = "connect" => call[1] = 17
    /\ op \in TryOps \ {"try_connect"} => call[1] = 24
    /\ op = "try_connect" => call[1] = 25

\* the success tags under which function o may hand out a handle or words
ExpectedTags(o) ==
  CASE o \in {"connect", "try_connect"} -> {SyscallResult_ConnectionId}
    [] o = "thread_id" -> {SyscallResult_ThreadId}
    [] o = "join_thread" ->
         {SyscallResult_Scalar1, SyscallResult_Scalar2, SyscallResult_Scalar5}
    [] o \in LendOps ->
         {SyscallResult_MemoryReturned, SyscallResult_Scalar1, SyscallResult_Scalar2,
          SyscallResult_Scalar5}
    [] o = "map_memory" -> {SyscallResult_MemoryRange}

\* C14: connect, try_connect, thread_id, join_thread, the lend family and
\* map_memory return a handle or result words only under the success tag they
\* expect; a reply that is not an Error and carries any other tag gives
\* InternalError.
C14_TagChecked ==
  /\ pc = "done"
  /\ op \in {"connect", "try_connect", "thread_id", "join_thread", "map_memory"} \cup LendOps
  /\ reply[1] # SyscallResult_Error
  /\ reply[1] \notin ExpectedTags(op)
  => result = ResultErr("InternalError")

====
